---- MODULE Spec2Model ----
(***************************************************************************)
(* Model of the llm-service task tracking layer:                           *)
(*   - TaskManager (src/llm-service/src/services/task_manager.py): the     *)
(*     in-memory registry of task states and task results;                 *)
(*   - the /tasks routes (src/llm-service/src/api/routes/tasks.py): job    *)
(*     submission, status polling and result fetching;                     *)
(*   - the background job started at submission: one run of the            *)
(*     GoogleOptimizerAgent graph                                          *)
(*     (src/llm-service/src/agents/google_agent/optimizer_agent_new.py).   *)
(*                                                                         *)
(* The specifications:                                                     *)
(*   Spec         the TaskManager driven by an arbitrary caller of its     *)
(*                five methods (and of the two routes that only read it);  *)
(*   SpecService  the service as wired: the three routes and the           *)
(*                background jobs; FairSpecService adds the fairness of    *)
(*                the event loop and of a polling client;                  *)
(*   SpecPipeline one run of GoogleOptimizerAgent.run in detail: the       *)
(*                Pipeline State, the generation calls and the fan-out;    *)
(*   SpecAgents   the same for either orchestrator, GoogleOptimizerAgent   *)
(*                or the stand-alone QueryOptimizerAgent;                  *)
(*   SpecSort     the sort stage applied to a workload;                    *)
(*   SpecSplit    the statement splitter applied to a generated text.      *)
(***************************************************************************)
EXTENDS Integers, FiniteSets, Sequences, TLC

\* ------------------------------------------------------------------ bounds

\* Number of identifiers uuid4 can hand out in one run of the model.
MaxTasks == 2

\* The identifiers uuid.uuid4() draws from.
UuidPool == 1..MaxTasks

\* An identifier a caller makes up: uuid4 never returns it.
ForeignIds == {0}

Ids == UuidPool \cup ForeignIds

\* Result objects a caller can hand to set_task_result.
Results == {"res_a", "res_b"}

\* ------------------------------------------------------------------ values

\* class State(Enum)
RUNNING == "RUNNING"
FAILED == "FAILED"
DONE == "DONE"
State == {RUNNING, FAILED, DONE}

\* Python's None.
None == "None"

\* A key a dict does not hold.
Missing == "<missing>"

\* HTTPException(status_code=404, ...)
HTTP404 == "HTTP404"

\* The graph with the edges of analyze_schema and develop_ddl exchanged.
Nodes_develop_first == <<"sort_queries_by_total_time", "develop_ddl", "analyze_schema",
          "generate_migrations", "optimize_queries", "form_final_output">>

\* The nodes of the compiled graph, in edge order START -> ... -> END.
Nodes == <<"sort_queries_by_total_time", "analyze_schema", "develop_ddl",
           "generate_migrations", "optimize_queries", "form_final_output">>

\* The nodes that await an external generation call, which may raise.
AwaitingNodes == {"analyze_schema", "develop_ddl", "generate_migrations",
                  "optimize_queries"}

\* ------------------------------------------------------------------ state

VARIABLES
    _tasks,          \* TaskManager._tasks: id -> State, Missing when not a key
    _tasks_results,  \* TaskManager._tasks_results: id -> result, Missing when not a key
    issued,          \* the identifiers uuid4 has returned so far
    job,             \* per identifier: position of the asyncio task started for it
    last,            \* the most recent call and what it returned
    fresh,           \* the tasks no call has named since they were created
    obs,             \* the values read for one task since the last write on it
    raised_in,       \* per identifier: the node whose exception ended the job
    pst,             \* per pipeline run: position, Pipeline State, fan-out, history
    srt,             \* one application of the sort stage to a workload
    san              \* one application of the statement splitter to a text

\* The task registry, the routes and the job positions.
svcvars == <<_tasks, _tasks_results, issued, job, last, fresh, obs, raised_in>>

\* One pipeline run in detail, and the two pure functions on their own.
purevars == <<pst, srt, san>>

vars == <<_tasks, _tasks_results, issued, job, last, fresh, obs, raised_in, pst, srt, san>>

NoObs == [id |-> -1, state |-> "-", result |-> "-"]

\* The record of a call:
\*   op, id    the method or route and the task identifier it was given (or returned)
\*   ret       the value returned
\*   fresh     the task had just been created: no call named it since
\*   prev      what the previous read of the same kind returned for this task,
\*             when no write on the task came in between ("-" otherwise)
\*   clash     for a creation: the identifier was already issued or already a key
Call(op, id, ret, isFresh, prev, clash) ==
    [op |-> op, id |-> id, ret |-> ret, fresh |-> isFresh, prev |-> prev, clash |-> clash]

\* TaskManager() and no job submitted.
InitService ==
    /\ _tasks = [t \in Ids |-> Missing]
    /\ _tasks_results = [t \in Ids |-> Missing]
    /\ issued = {}
    /\ job = [t \in UuidPool |-> "none"]
    /\ last = Call("init", -1, None, FALSE, "-", FALSE)
    /\ fresh = {}
    /\ obs = NoObs
    /\ raised_in = [t \in UuidPool |-> "none"]

\* No pipeline run, no sort and no splitter application under study.
NoRun == <<>>
Idle == [done |-> FALSE]

Init ==
    /\ InitService
    /\ pst = NoRun
    /\ srt = Idle
    /\ san = Idle

\* ------------------------------------------------------------------ helpers

\* dict.get(key, default)
DictGet(d, k, default) == IF d[k] = Missing THEN default ELSE d[k]

\* A generator that can repeat itself.
uuid4_repeating(used) == UuidPool

\* uuid.uuid4(): a value no earlier call returned.
uuid4(used) == UuidPool \ used

\* The identifiers a caller can pass: the ones it was given, or made-up ones.
CallerIds == issued \cup ForeignIds

\* Bookkeeping of what was read. A write on the observed task forgets it.
ObsWrite(t) == IF obs.id = t THEN NoObs ELSE obs
ObsState(t, s) ==
    IF obs.id = t THEN [obs EXCEPT !.state = s]
    ELSE [id |-> t, state |-> s, result |-> "-"]
ObsResult(t, r) ==
    IF obs.id = t THEN [obs EXCEPT !.result = r]
    ELSE [id |-> t, state |-> "-", result |-> r]
PrevState(t) == IF obs.id = t THEN obs.state ELSE "-"
PrevResult(t) == IF obs.id = t THEN obs.result ELSE "-"

Clash(id) == id \in issued \/ _tasks[id] # Missing \/ _tasks_results[id] # Missing

\* ------------------------------------------------------------------ TaskManager

\* A creation that records nothing under the identifier it returns.
CreateTaskBody_unrecorded(id) == UNCHANGED <<_tasks, _tasks_results>>

\* create_task: self._tasks[id] = State.RUNNING
CreateTaskBody(id) ==
    /\ _tasks' = [_tasks EXCEPT ![id] = RUNNING]
    /\ UNCHANGED _tasks_results

\* A lookup whose default is RUNNING.
GetTaskStateValue_defaultRunning(t) == DictGet(_tasks, t, RUNNING)

\* get_task_state: return self._tasks.get(task_id, State.FAILED)
GetTaskStateValue(t) == DictGet(_tasks, t, FAILED)

\* A lookup that records the default under an unknown identifier
\* (dict.setdefault in place of dict.get).
GetTaskStateBody_setdefault(t) ==
    /\ _tasks' = [_tasks EXCEPT ![t] = DictGet(_tasks, t, FAILED)]
    /\ UNCHANGED _tasks_results

GetTaskStateBody(t) == UNCHANGED <<_tasks, _tasks_results>>

\* A change of state that reaches every recorded task.
ChangeTaskStateBody_all(t, s) ==
    /\ _tasks' = [u \in Ids |-> IF u = t \/ _tasks[u] # Missing THEN s ELSE _tasks[u]]
    /\ UNCHANGED _tasks_results

\* change_task_state: self._tasks[task_id] = state
ChangeTaskStateBody(t, s) ==
    /\ _tasks' = [_tasks EXCEPT ![t] = s]
    /\ UNCHANGED _tasks_results

\* set_task_result: self._tasks_results[task_id] = result
SetTaskResultBody(t, r) ==
    /\ _tasks_results' = [_tasks_results EXCEPT ![t] = r]
    /\ UNCHANGED _tasks

\* get_task_result: return self._tasks_results.get(task_id, None)
GetTaskResultValue(t) == DictGet(_tasks_results, t, None)

\* A read that takes the result out of the map (dict.pop in place of dict.get).
GetTaskResultBody_pop(t) ==
    /\ _tasks_results' = [_tasks_results EXCEPT ![t] = Missing]
    /\ UNCHANGED _tasks

GetTaskResultBody(t) == UNCHANGED <<_tasks, _tasks_results>>

create_task ==
    \E id \in uuid4(issued) :
        /\ CreateTaskBody(id)
        /\ issued' = issued \cup {id}
        /\ last' = Call("create_task", id, "id", FALSE, "-", Clash(id))
        /\ fresh' = fresh \cup {id}
        /\ obs' = ObsWrite(id)
        /\ UNCHANGED <<job, raised_in, purevars>>

get_task_state ==
    \E t \in CallerIds :
        /\ GetTaskStateBody(t)
        /\ last' = Call("get_task_state", t, GetTaskStateValue(t), t \in fresh,
                        PrevState(t), FALSE)
        /\ fresh' = fresh \ {t}
        /\ obs' = ObsState(t, GetTaskStateValue(t))
        /\ UNCHANGED <<issued, job, raised_in, purevars>>

change_task_state ==
    \E t \in CallerIds, s \in State :
        /\ ChangeTaskStateBody(t, s)
        /\ last' = Call("change_task_state", t, None, FALSE, "-", FALSE)
        /\ fresh' = fresh \ {t}
        /\ obs' = ObsWrite(t)
        /\ UNCHANGED <<issued, job, raised_in, purevars>>

set_task_result ==
    \E t \in CallerIds, r \in Results :
        /\ SetTaskResultBody(t, r)
        /\ last' = Call("set_task_result", t, None, FALSE, "-", FALSE)
        /\ fresh' = fresh \ {t}
        /\ obs' = ObsWrite(t)
        /\ UNCHANGED <<issued, job, raised_in, purevars>>

get_task_result ==
    \E t \in CallerIds :
        /\ GetTaskResultBody(t)
        /\ last' = Call("get_task_result", t, GetTaskResultValue(t), FALSE,
                        PrevResult(t), FALSE)
        /\ fresh' = fresh \ {t}
        /\ obs' = ObsResult(t, GetTaskResultValue(t))
        /\ UNCHANGED <<issued, job, raised_in, purevars>>

\* ------------------------------------------------------------------ routes
\*
\* tasks.py names the registry methods add_task, get_status and get_result;
\* TaskManager defines the registration, the status lookup and the result lookup
\* as create_task, get_task_state and get_task_result. Each call of a route is
\* bound to the TaskManager method of that role. TaskManager keeps no reference
\* to the asyncio task: the variable job holds the position of the coroutine the
\* route scheduled for the identifier it returned.

\* GET /tasks/getresult: 404 when the registry holds no result, the result otherwise.
RouteResultValue(result) == IF result = None THEN HTTP404 ELSE result

route_get_task_result ==
    \E t \in CallerIds :
        /\ GetTaskResultBody(t)
        /\ last' = Call("route_get_task_result", t,
                        RouteResultValue(GetTaskResultValue(t)), FALSE,
                        IF PrevResult(t) = "-" THEN "-" ELSE RouteResultValue(PrevResult(t)),
                        FALSE)
        /\ fresh' = fresh \ {t}
        /\ obs' = ObsResult(t, GetTaskResultValue(t))
        /\ UNCHANGED <<issued, job, raised_in, purevars>>

\* GET /tasks/status: the registry's state for the identifier.
RouteGetTaskStatus(t) ==
    /\ GetTaskStateBody(t)
    /\ last' = Call("route_get_task_status", t, GetTaskStateValue(t), t \in fresh,
                    PrevState(t), FALSE)
    /\ fresh' = fresh \ {t}
    /\ obs' = ObsState(t, GetTaskStateValue(t))
    /\ UNCHANGED <<issued, job, raised_in, purevars>>

route_get_task_status == \E t \in CallerIds : RouteGetTaskStatus(t)

\* POST /tasks/new: asyncio.create_task(agent.run(data)) schedules the job, the
\* registry records the task, the identifier is returned. No await in between.
\* (RouteCreateTaskJob_awaited: a route that awaits agent.run(data) before it returns.)
RouteCreateTaskJob_awaited(id) == job' = [job EXCEPT ![id] = "returned"]

RouteCreateTaskJob(id) == job' = [job EXCEPT ![id] = "scheduled"]

route_create_task ==
    \E id \in uuid4(issued) :
        /\ RouteCreateTaskJob(id)
        /\ CreateTaskBody(id)
        /\ issued' = issued \cup {id}
        /\ last' = Call("route_create_task", id, "id", FALSE, "-", Clash(id))
        /\ fresh' = fresh \cup {id}
        /\ obs' = ObsWrite(id)
        /\ UNCHANGED <<raised_in, purevars>>

\* ------------------------------------------------------------------ background job

NodeIndex(n) == CHOOSE i \in 1..Len(Nodes) : Nodes[i] = n

IsNode(p) == \E i \in 1..Len(Nodes) : Nodes[i] = p

\* The position after node n returned: the next node, or the end of run().
AfterNode(n) ==
    IF NodeIndex(n) = Len(Nodes) THEN "returned" ELSE Nodes[NodeIndex(n) + 1]

\* The event loop starts the scheduled coroutine: run() enters the graph.
JobStart(t) ==
    /\ job[t] = "scheduled"
    /\ job' = [job EXCEPT ![t] = Nodes[1]]
    /\ UNCHANGED <<_tasks, _tasks_results, issued, last, fresh, obs, raised_in, purevars>>

\* The current node returns its state; the graph moves along its edge.
NodeReturn(t) ==
    /\ IsNode(job[t])
    /\ job' = [job EXCEPT ![t] = AfterNode(job[t])]
    /\ UNCHANGED <<_tasks, _tasks_results, issued, last, fresh, obs, raised_in, purevars>>

\* The generation call awaited by the current node raises; run() raises.
NodeRaise(t) ==
    /\ job[t] \in AwaitingNodes
    /\ job' = [job EXCEPT ![t] = "raised"]
    /\ raised_in' = [raised_in EXCEPT ![t] = job[t]]
    /\ UNCHANGED <<_tasks, _tasks_results, issued, last, fresh, obs, purevars>>

JobStep(t) == JobStart(t) \/ NodeReturn(t) \/ NodeRaise(t)

\* ------------------------------------------------------------------ specifications

Next ==
    \/ create_task
    \/ get_task_state
    \/ change_task_state
    \/ set_task_result
    \/ get_task_result
    \/ route_get_task_status
    \/ route_get_task_result

Spec == Init /\ [][Next]_vars

NextService ==
    \/ route_create_task
    \/ route_get_task_status
    \/ route_get_task_result
    \/ \E t \in UuidPool : JobStart(t)
    \/ \E t \in UuidPool : NodeReturn(t)
    \/ \E t \in UuidPool : NodeRaise(t)

SpecService == Init /\ [][NextService]_vars

\* The event loop runs every ready coroutine and every generation call returns
\* or fails; the client keeps polling every identifier it holds.
FairSpecService ==
    /\ SpecService
    /\ \A t \in UuidPool : WF_vars(JobStep(t))
    /\ \A t \in Ids : WF_vars(t \in CallerIds /\ RouteGetTaskStatus(t))

TypeOK ==
    /\ _tasks \in [Ids -> State \cup {Missing}]
    /\ _tasks_results \in [Ids -> Results \cup {Missing}]
    /\ issued \subseteq UuidPool
    /\ fresh \subseteq issued

\* ------------------------------------------------------------------ pipeline data
\* agents/google_agent/optimizer_agent_new.py (GoogleOptimizerAgent, the agent
\* the submission route runs) and agents/query_optimizer/optimizer_agent.py
\* (QueryOptimizerAgent, a stand-alone orchestrator of the rewrite stage only).

\* The longest workload of a pipeline run.
MaxQueries == 2

GOOGLE == "GoogleOptimizerAgent"
QUERY_OPTIMIZER == "QueryOptimizerAgent"

\* agents/google_agent/optimizer_agent.py: the earlier GoogleOptimizerAgent,
\* the same graph over AnalystAgent, DDLAgent, MigrationAgent and QueryAgent.
GOOGLE_OLD == "optimizer_agent.GoogleOptimizerAgent"
GoogleAgents == {GOOGLE, GOOGLE_OLD}

\* The graph of QueryOptimizerAgent: START -> optimize_queries ->
\* form_final_output -> END.
QONodes == <<"optimize_queries", "form_final_output">>

GraphNodes(agent) == IF agent \in GoogleAgents THEN Nodes ELSE QONodes

\* The nodes that await exactly one generation call.
SingleCallNodes == {"analyze_schema", "develop_ddl", "generate_migrations"}

\* dict.get(key, default) on a dict modelled as a record.
PyGet(d, k, default) == IF k \in DOMAIN d THEN d[k] ELSE default

\* A sort key that takes a missing metric as one.
Impact_missing_one(q) == PyGet(q, "runquantity", 1) * PyGet(q, "executiontime", 1)

\* The sort key: q.get("runquantity", 0) * q.get("executiontime", 0).
Impact(q) == PyGet(q, "runquantity", 0) * PyGet(q, "executiontime", 0)

Reverse(s) == [i \in 1..Len(s) |-> s[Len(s) + 1 - i]]

\* x put behind every element whose key is not larger: a stable insertion.
RECURSIVE InsertAscending(_, _)
InsertAscending(x, s) ==
    IF s = <<>> THEN <<x>>
    ELSE IF Impact(s[Len(s)]) <= Impact(x) THEN Append(s, x)
    ELSE Append(InsertAscending(x, SubSeq(s, 1, Len(s) - 1)), s[Len(s)])

\* list.sort: stable, ascending in the key.
RECURSIVE StableAscending(_)
StableAscending(s) ==
    IF s = <<>> THEN <<>>
    ELSE InsertAscending(s[Len(s)], StableAscending(SubSeq(s, 1, Len(s) - 1)))

\* Ascending sort turned round: it also turns round the items of equal key.
sorted_reverse_plain(s) == Reverse(StableAscending(s))

\* sorted(s, key=Impact, reverse=True): the list is reversed, sorted stably in
\* ascending order and reversed again, which keeps equal keys in input order.
sorted_reverse(s) == Reverse(StableAscending(Reverse(s)))

\* The workload items of a pipeline run, as to_agent_input() builds them.
QueryIds == {"q1", "q2"}
Sqls == {"SELECT a", "SELECT b"}
QueryItems ==
    [queryid : QueryIds, query : Sqls, runquantity : {1, 2}, executiontime : {1}]

SeqsUpTo(S, n) == UNION {[1..k -> S] : k \in 0..n}

Workloads == SeqsUpTo(QueryItems, MaxQueries)

\* The input of run(): the schema statements and the workload.
Inputs ==
    [metadata : {[url |-> "jdbc"]}, ddl_statements : {<<"CREATE TABLE t">>},
     queries : Workloads]

\* What the generation calls answer, after each agent cleaned the text.
Plans == {"plan"}
DdlAnswers == {<<>>, <<"CREATE TABLE t2", "CREATE TABLE t3">>}
MigrationAnswers == {<<>>, <<"INSERT INTO t2", "INSERT INTO t3">>}
Rewritten(sql) == <<"rewritten", sql>>

Answers(node) ==
    CASE node = "analyze_schema" -> Plans
      [] node = "develop_ddl" -> DdlAnswers
      [] node = "generate_migrations" -> MigrationAnswers

\* A develop_ddl that stores the new schema over the input schema.
Writes_over_schema(node) ==
    CASE node = "analyze_schema" -> "optimization_plan"
      [] node = "develop_ddl" -> "ddl_statements"
      [] node = "generate_migrations" -> "out_migrations"
      [] node = "optimize_queries" -> "out_queries"

\* The Pipeline State key a single-call node assigns.
Writes(node) ==
    CASE node = "analyze_schema" -> "optimization_plan"
      [] node = "develop_ddl" -> "out_ddl_statements"
      [] node = "generate_migrations" -> "out_migrations"
      [] node = "optimize_queries" -> "out_queries"

\* The Pipeline State keys a node subscripts to build its call.
Reads(agent, node) ==
    CASE node = "sort_queries_by_total_time" -> {"queries"}
      [] node = "analyze_schema" -> {"ddl_statements", "queries"}
      [] node = "develop_ddl" -> {"optimization_plan", "ddl_statements"}
      [] node = "generate_migrations" ->
            {"optimization_plan", "ddl_statements", "out_ddl_statements"}
      [] node = "optimize_queries" ->
            IF agent \in GoogleAgents THEN {"queries", "out_migrations"}
            ELSE {"queries"}
      [] node = "form_final_output" ->
            {"out_ddl_statements", "out_migrations", "out_queries"}

\* initial_state of run(): the inputs and every derived field empty.
InitialState(agent, data) ==
    IF agent \in GoogleAgents
    THEN [metadata |-> data.metadata, ddl_statements |-> data.ddl_statements,
          queries |-> data.queries,
          optimization_plan |-> "", out_ddl_statements |-> <<>>,
          out_migrations |-> <<>>, out_queries |-> <<>>]
    ELSE [metadata |-> data.metadata, ddl_statements |-> data.ddl_statements,
          queries |-> data.queries,
          out_ddl_statements |-> <<>>, out_migrations |-> <<>>,
          out_queries |-> <<>>]

NoState == [unset |-> TRUE]
NoResult == [unset |-> TRUE]

\* run(data) has been called and has not executed a statement yet.
NewRun(agent, data) ==
    [agent |-> agent, data |-> data, pc |-> "called", phase |-> "enter",
     state |-> NoState, rw |-> <<>>, started |-> <<>>, completed |-> <<>>,
     calls |-> <<>>, returns |-> <<>>, finished |-> <<>>, raised_in |-> "none",
     result |-> NoResult]

InitPipeline ==
    /\ InitService
    /\ \E data \in Inputs : pst = [j \in {1} |-> NewRun(GOOGLE, data)]
    /\ srt = Idle
    /\ san = Idle

InitAgents ==
    /\ InitService
    /\ \E agent \in {GOOGLE, QUERY_OPTIMIZER}, data \in Inputs :
          pst = [j \in {1} |-> NewRun(agent, data)]
    /\ srt = Idle
    /\ san = Idle

\* ------------------------------------------------------------------ sort stage alone

\* The longest workload handed to the sort stage on its own.
MaxSortLen == 3

\* The metrics of one item: each of the two keys is absent or a count.
MetricValues == {0, 1, 2}
Metrics ==
    {[query |-> "SELECT a"]}
    \cup [query : {"SELECT a"}, runquantity : MetricValues]
    \cup [query : {"SELECT a"}, executiontime : MetricValues]
    \cup [query : {"SELECT a"}, runquantity : MetricValues,
          executiontime : MetricValues]

\* The workload whose items have the metrics m and are identified by their
\* position in the input.
SortWorkload(m) == [i \in DOMAIN m |-> [queryid |-> i] @@ m[i]]

InitSort ==
    /\ InitService
    /\ pst = NoRun
    /\ \E k \in 0..MaxSortLen : \E m \in [1..k -> Metrics] :
          srt = [done |-> FALSE, queries |-> SortWorkload(m)]
    /\ san = Idle

\* state["queries"] = sorted(state["queries"], key=..., reverse=True)
sort_queries_apply ==
    /\ ~srt.done
    /\ srt' = [done |-> TRUE, queries |-> srt.queries,
               out |-> sorted_reverse(srt.queries)]
    /\ UNCHANGED <<svcvars, pst, san>>

SpecSort == InitSort /\ [][sort_queries_apply]_vars

\* ------------------------------------------------------------------ statement splitter
\* DeveloperAgent._split_clean and MigrationAgent._split_clean (the same code).
\* A text is a sequence of characters; the three backticks of a fence are one
\* character of the model, "a" stands for a word character (letter, digit,
\* underscore), ";" for any other printable character; the two characters
\* that open a single-line comment and the pairs that open and close a block
\* comment are one character each ("--", "/*", "*/").

FENCE == "FENCE"
NL == "\n"
WordChars == {"a"}
SpaceChars == {" ", NL}

\* text.split("\n")
RECURSIVE SplitLines(_)
SplitLines(text) ==
    IF \A i \in DOMAIN text : text[i] # NL THEN <<text>>
    ELSE LET i == CHOOSE i \in DOMAIN text :
                      text[i] = NL /\ \A k \in 1..(i - 1) : text[k] # NL
         IN <<SubSeq(text, 1, i - 1)>> \o SplitLines(SubSeq(text, i + 1, Len(text)))

\* "\n".join(lines)
RECURSIVE JoinLines(_)
JoinLines(lines) ==
    IF lines = <<>> THEN <<>>
    ELSE IF Len(lines) = 1 THEN lines[1]
    ELSE lines[1] \o <<NL>> \o JoinLines(Tail(lines))

\* The lines whose index is in keep, in order, from index k on.
RECURSIVE PickLines(_, _, _)
PickLines(lines, keep, k) ==
    IF k > Len(lines) THEN <<>>
    ELSE (IF k \in keep THEN <<lines[k]>> ELSE <<>>) \o PickLines(lines, keep, k + 1)

\* A line matched by ^```[\w]* : a fence followed by word characters only.
IsFenceLine(line) ==
    /\ Len(line) >= 1
    /\ line[1] = FENCE
    /\ \A i \in 2..Len(line) : line[i] \in WordChars

\* re.sub(r"^```[\w]*\n", "", text, flags=re.MULTILINE): every line that is a
\* fence with word characters and ends in a newline goes, newline included.
SubOpeningFence(text) ==
    LET lines == SplitLines(text)
    IN JoinLines(PickLines(lines,
            {k \in DOMAIN lines : ~(k < Len(lines) /\ IsFenceLine(lines[k]))}, 1))

\* re.sub(r"\n```$", "", text, flags=re.MULTILINE): every line but the first
\* that is a bare fence goes, together with the newline before it.
SubClosingFence(text) ==
    LET lines == SplitLines(text)
    IN JoinLines(PickLines(lines,
            {k \in DOMAIN lines : ~(k > 1 /\ lines[k] = <<FENCE>>)}, 1))

\* text.replace("```", "")
ReplaceFence(text) == SelectSeq(text, LAMBDA c : c # FENCE)

\* str.strip()
RECURSIVE Strip(_)
Strip(text) ==
    IF text = <<>> THEN <<>>
    ELSE IF text[1] \in SpaceChars THEN Strip(Tail(text))
    ELSE IF text[Len(text)] \in SpaceChars THEN Strip(SubSeq(text, 1, Len(text) - 1))
    ELSE text

_strip_markdown_and_clean(text) ==
    Strip(ReplaceFence(SubClosingFence(SubOpeningFence(text))))

\* [line.strip() for line in cleaned.split("\n") if line.strip()]
StrippedNonBlank(lines) ==
    LET stripped == [k \in DOMAIN lines |-> Strip(lines[k])]
    IN SelectSeq(stripped, LAMBDA line : line # <<>>)

_split_clean(text) == StrippedNonBlank(SplitLines(_strip_markdown_and_clean(text)))

\* The most body lines of a generated text.
MaxBodyLines == 3

\* Generated texts wrapped in a fenced code block: an opening fence line with
\* no language tag, with a tag, or with a tag and a space behind it; body
\* lines, some of them SQL comments; a closing fence with or without a newline
\* behind it.
OpeningFences == {<<FENCE, NL>>, <<FENCE, "a", NL>>, <<FENCE, "a", " ", NL>>}
ClosingFences == {<<FENCE>>, <<FENCE, NL>>}
BodyLines ==
    {<<"a", ";">>, <<" ", "a", " ", "a", ";", " ">>, <<>>, <<" ">>,
     <<"--", " ", "a">>, <<"/*", " ", "a", " ", "*/">>}

\* The body: each line followed by its newline.
RECURSIVE BodyText(_)
BodyText(body) ==
    IF body = <<>> THEN <<>> ELSE body[1] \o <<NL>> \o BodyText(Tail(body))

InitSplit ==
    /\ InitService
    /\ pst = NoRun
    /\ srt = Idle
    /\ \E opening \in OpeningFences, closing \in ClosingFences,
          body \in SeqsUpTo(BodyLines, MaxBodyLines) :
            san = [done |-> FALSE, opening |-> opening, body |-> body,
                   text |-> opening \o BodyText(body) \o closing]

\* statements = self._split_clean(result.content)
split_clean_apply ==
    /\ ~san.done
    /\ san' = [san EXCEPT !.done = TRUE] @@ [out |-> _split_clean(san.text)]
    /\ UNCHANGED <<svcvars, pst, srt>>

SpecSplit == InitSplit /\ [][split_clean_apply]_vars

\* ------------------------------------------------------------------ instruction templates
\* A template is the set of replacement fields of its text; str.format fills
\* them from the keyword arguments and ignores the arguments the text does not
\* name.

\* agents/google_agent/prompts.py, used by DDLAgent and QueryAgent.
DEVELOP_DDL_FROM_PLAN == {"optimization_plan", "ddl_statements", "queries"}
OPTIMIZE_QUERY == {"migration_commands", "query"}

\* agents/google_agent/prompts_new.py, used by AnalystAgent, DeveloperAgent,
\* MigrationAgent and QueryOptimizerAgent. The file is not part of the source
\* tree; each template has the fields its agent fills.
NEW_ANALYZE_SCHEMA == {"input_ddl_statements", "input_queries"}
NEW_DEVELOP_DDL_FROM_PLAN == {"optimization_plan", "input_ddl_statements"}
NEW_DEVELOP_MIGRATIONS_FROM_PLAN ==
    {"optimization_plan", "input_ddl_statements", "output_ddl_statements"}
NEW_OPTIMIZE_QUERY == {"migration_commands", "query"}

\* The template a node's agent fills.
Template(agent, node) ==
    CASE node = "analyze_schema" -> NEW_ANALYZE_SCHEMA
      [] node = "develop_ddl" ->
            IF agent = GOOGLE_OLD THEN DEVELOP_DDL_FROM_PLAN
            ELSE NEW_DEVELOP_DDL_FROM_PLAN
      [] node = "generate_migrations" -> NEW_DEVELOP_MIGRATIONS_FROM_PLAN
      [] node = "optimize_queries" ->
            IF agent = GOOGLE_OLD THEN OPTIMIZE_QUERY ELSE NEW_OPTIMIZE_QUERY

\* sep.join(items): the items in order, separated by sep.
Joined(sep, items) == [sep |-> sep, items |-> items]

\* The number of workload items AnalystAgent puts into its instruction.
AnalyzeLimit == 10

\* A block for every item of the workload.
QueriesBlock_all(queries) ==
    Joined("\n\n",
        [i \in 1..Len(queries) |->
            [number |-> i,
             runquantity |-> PyGet(queries[i], "runquantity", 0),
             executiontime |-> PyGet(queries[i], "executiontime", 0),
             queryid |-> PyGet(queries[i], "queryid", None),
             query |-> PyGet(queries[i], "query", None)]])

\* AnalystAgent.analyze: one block per item of queries[:10], numbered from 1.
QueriesBlock(queries) ==
    Joined("\n\n",
        [i \in 1..(IF Len(queries) < AnalyzeLimit THEN Len(queries)
                   ELSE AnalyzeLimit) |->
            [number |-> i,
             runquantity |-> PyGet(queries[i], "runquantity", 0),
             executiontime |-> PyGet(queries[i], "executiontime", 0),
             queryid |-> PyGet(queries[i], "queryid", None),
             query |-> PyGet(queries[i], "query", None)]])

\* The keyword arguments an agent passes to its template's format().
Variables(agent, node, args) ==
    CASE node = "analyze_schema" ->
            [input_ddl_statements |-> Joined("\n", args.ddl_statements),
             input_queries |-> QueriesBlock(args.queries)]
      [] node = "develop_ddl" ->
            IF agent = GOOGLE_OLD
            THEN [optimization_plan |-> args.optimization_plan,
                  ddl_statements |-> Joined("\n", args.original_ddl_statements)]
            ELSE [optimization_plan |-> args.optimization_plan,
                  input_ddl_statements |->
                      Joined("\n", args.original_ddl_statements)]
      [] node = "generate_migrations" ->
            [optimization_plan |-> args.optimization_plan,
             input_ddl_statements |-> Joined("\n", args.old_ddl_statements),
             output_ddl_statements |-> Joined("\n", args.new_ddl_statements)]
      [] node = "optimize_queries" ->
            [migration_commands |-> Joined("\n", args.migration_commands),
             query |-> args.query]

\* template.format(**kwargs): KeyError when the text names a field that is
\* not among the arguments, else the text with its fields filled.
Format(template, kwargs) ==
    IF template \subseteq DOMAIN kwargs
    THEN [ok |-> TRUE, fields |-> [f \in template |-> kwargs[f]]]
    ELSE [ok |-> FALSE, missing |-> template \ DOMAIN kwargs]

\* ------------------------------------------------------------------ pipeline run

\* Runs that all work on the record of the first one.
Run_shared(j) == pst[1]

\* The record of run j: its own initial_state and everything built from it.
Run(j) == pst[j]

PipeIndex(agent, n) ==
    CHOOSE i \in 1..Len(GraphNodes(agent)) : GraphNodes(agent)[i] = n

\* An edge that jumps over the next node.
PipeAfter_skipping(agent, n) ==
    IF PipeIndex(agent, n) + 2 > Len(GraphNodes(agent)) THEN "END"
    ELSE GraphNodes(agent)[PipeIndex(agent, n) + 2]

\* The edge out of node n: the next node of the graph, or END.
PipeAfter(agent, n) ==
    IF PipeIndex(agent, n) = Len(GraphNodes(agent)) THEN "END"
    ELSE GraphNodes(agent)[PipeIndex(agent, n) + 1]

\* The graph merges the dict a node returns into the Pipeline State.
ApplyUpdate(state, update) ==
    [k \in DOMAIN state |-> IF k \in DOMAIN update THEN update[k] ELSE state[k]]

\* The keyword arguments a single-call node passes to its agent.
StageArgs(node, state) ==
    CASE node = "analyze_schema" ->
            [ddl_statements |-> state["ddl_statements"], queries |-> state["queries"]]
      [] node = "develop_ddl" ->
            [optimization_plan |-> state["optimization_plan"],
             original_ddl_statements |-> state["ddl_statements"]]
      [] node = "generate_migrations" ->
            [optimization_plan |-> state["optimization_plan"],
             old_ddl_statements |-> state["ddl_statements"],
             new_ddl_statements |-> state["out_ddl_statements"]]

\* run(): initial_state is built and graph.ainvoke enters the first node.
run_begin(j) ==
    /\ Run(j).pc = "called"
    /\ pst' = [pst EXCEPT ![j].state = InitialState(Run(j).agent, Run(j).data),
                          ![j].pc = GraphNodes(Run(j).agent)[1]]
    /\ UNCHANGED <<svcvars, srt, san>>

\* A sort node that keeps the first item only.
sort_queries_by_total_time_first(j) ==
    /\ Run(j).pc = "sort_queries_by_total_time"
    /\ pst' = [pst EXCEPT
            ![j].state = ApplyUpdate(@,
                [queries |-> IF @["queries"] = <<>> THEN <<>>
                             ELSE <<Head(sorted_reverse(@["queries"]))>>]),
            ![j].started = Append(@, Run(j).pc),
            ![j].completed = Append(@, Run(j).pc),
            ![j].pc = PipeAfter(Run(j).agent, Run(j).pc)]
    /\ UNCHANGED <<svcvars, srt, san>>

\* The sort node: no await, the workload is replaced by its sorted copy.
sort_queries_by_total_time(j) ==
    /\ Run(j).pc = "sort_queries_by_total_time"
    /\ pst' = [pst EXCEPT
            ![j].state = ApplyUpdate(@, [queries |-> sorted_reverse(@["queries"])]),
            ![j].started = Append(@, Run(j).pc),
            ![j].completed = Append(@, Run(j).pc),
            ![j].pc = PipeAfter(Run(j).agent, Run(j).pc)]
    /\ UNCHANGED <<svcvars, srt, san>>

\* analyze_schema, develop_ddl or generate_migrations starts: it reads its
\* arguments from the Pipeline State and awaits the agent's generation call.
StagePrompt(j) ==
    Format(Template(Run(j).agent, Run(j).pc),
           Variables(Run(j).agent, Run(j).pc, StageArgs(Run(j).pc, Run(j).state)))

\* The agent fills its template before the call: when format() raises
\* KeyError no call is issued and the node, ainvoke and run() raise in turn.
StageCall(j) ==
    /\ Run(j).pc \in SingleCallNodes
    /\ Run(j).phase = "enter"
    /\ IF StagePrompt(j).ok
       THEN pst' = [pst EXCEPT
            ![j].phase = "await",
            ![j].started = Append(@, Run(j).pc),
            ![j].calls = Append(@, [node |-> Run(j).pc,
                                    reads |-> Reads(Run(j).agent, Run(j).pc),
                                    before |-> Run(j).completed,
                                    args |-> StageArgs(Run(j).pc, Run(j).state),
                                    prompt |-> StagePrompt(j).fields])]
       ELSE pst' = [pst EXCEPT
            ![j].started = Append(@, Run(j).pc),
            ![j].pc = "raised",
            ![j].raised_in = Run(j).pc]
    /\ UNCHANGED <<svcvars, srt, san>>

\* The generation call answers: the node stores the answer and returns.
StageReturn(j) ==
    /\ Run(j).pc \in SingleCallNodes
    /\ Run(j).phase = "await"
    /\ \E answer \in Answers(Run(j).pc) :
        pst' = [pst EXCEPT
            ![j].state = ApplyUpdate(@, (Writes(Run(j).pc) :> answer)),
            ![j].returns = Append(@, [node |-> Run(j).pc, value |-> answer]),
            ![j].completed = Append(@, Run(j).pc),
            ![j].phase = "enter",
            ![j].pc = PipeAfter(Run(j).agent, Run(j).pc)]
    /\ UNCHANGED <<svcvars, srt, san>>

\* A node that catches the exception and issues its generation call again.
StageRaise_retry(j) ==
    /\ Run(j).pc \in SingleCallNodes
    /\ Run(j).phase = "await"
    /\ Len(Run(j).calls) < 4
    /\ pst' = [pst EXCEPT ![j].phase = "enter"]
    /\ UNCHANGED <<svcvars, srt, san>>

\* The generation call raises: the node, ainvoke and run() raise in turn.
StageRaise(j) ==
    /\ Run(j).pc \in SingleCallNodes
    /\ Run(j).phase = "await"
    /\ pst' = [pst EXCEPT ![j].pc = "raised", ![j].raised_in = Run(j).pc]
    /\ UNCHANGED <<svcvars, srt, san>>

\* ------------------------------------------------------------------ fan-out

\* One coroutine of the fan-out, before the event loop has run it.
Pending == [st |-> "pending", args |-> [unset |-> TRUE], out |-> [unset |-> TRUE]]

\* Arguments that hand over the new schema instead of the migrations.
RewriteArgs_ddl(state, i) ==
    [query |-> state["queries"][i]["query"],
     migration_commands |-> state["out_ddl_statements"]]

\* The keyword arguments _process_query passes to optimize_query.
RewriteArgs(state, i) ==
    [query |-> state["queries"][i]["query"],
     migration_commands |-> state["out_migrations"]]

\* An entry that names the coroutine instead of the item.
Entry_unnamed(q, text) == [queryid |-> "query", query |-> text]

\* The entry one coroutine returns: the item's identifier and a query text.
Entry(q, text) == [queryid |-> q["queryid"], query |-> text]

\* A node that waits for a first workload item before it starts its fan-out.
optimize_queries_begin_nonempty(j) ==
    /\ Run(j).pc = "optimize_queries"
    /\ Run(j).phase = "enter"
    /\ Len(Run(j).state["queries"]) > 0
    /\ pst' = [pst EXCEPT
            ![j].phase = "await",
            ![j].started = Append(@, Run(j).pc),
            ![j].calls = Append(@, [node |-> Run(j).pc,
                                    reads |-> Reads(Run(j).agent, Run(j).pc),
                                    before |-> Run(j).completed,
                                    args |-> [unset |-> TRUE]]),
            ![j].rw = [i \in 1..Len(Run(j).state["queries"]) |-> Pending]]
    /\ UNCHANGED <<svcvars, srt, san>>

\* optimize_queries starts: one coroutine per workload item, handed to gather.
optimize_queries_begin(j) ==
    /\ Run(j).pc = "optimize_queries"
    /\ Run(j).phase = "enter"
    /\ pst' = [pst EXCEPT
            ![j].phase = "await",
            ![j].started = Append(@, Run(j).pc),
            ![j].calls = Append(@, [node |-> Run(j).pc,
                                    reads |-> Reads(Run(j).agent, Run(j).pc),
                                    before |-> Run(j).completed,
                                    args |-> [unset |-> TRUE]]),
            ![j].rw = [i \in 1..Len(Run(j).state["queries"]) |-> Pending]]
    /\ UNCHANGED <<svcvars, srt, san>>

\* The event loop runs the coroutines in the order gather scheduled them.
\* GoogleOptimizerAgent: the coroutine awaits optimize_query's generation call.
\* QueryOptimizerAgent: _invoke_llm is a staticmethod declared with a self
\* parameter, so self._invoke_llm(prompt) raises TypeError inside the try block
\* and the except branch returns the original query at once.
RewriteStart(j, i) ==
    /\ i \in DOMAIN Run(j).rw
    /\ Run(j).rw[i].st = "pending"
    /\ \A k \in 1..(i - 1) : Run(j).rw[k].st # "pending"
    /\ IF Run(j).agent \in GoogleAgents
       THEN pst' = [pst EXCEPT ![j].rw[i].st = "inflight",
                               ![j].rw[i].args = RewriteArgs(Run(j).state, i)]
       ELSE pst' = [pst EXCEPT
                ![j].finished = Append(@, i),
                ![j].rw[i].st = "done",
                ![j].rw[i].out = Entry(Run(j).state["queries"][i],
                                       Run(j).state["queries"][i]["query"])]
    /\ UNCHANGED <<svcvars, srt, san>>

\* The generation call of one rewrite answers.
RewriteReturn(j, i) ==
    /\ i \in DOMAIN Run(j).rw
    /\ Run(j).rw[i].st = "inflight"
    /\ pst' = [pst EXCEPT
            ![j].finished = Append(@, i),
            ![j].rw[i].st = "done",
            ![j].rw[i].out = Entry(Run(j).state["queries"][i],
                                   Rewritten(Run(j).rw[i].args.query))]
    /\ UNCHANGED <<svcvars, srt, san>>

\* The generation call of one rewrite raises; _process_query has no handler.
RewriteRaise(j, i) ==
    /\ i \in DOMAIN Run(j).rw
    /\ Run(j).rw[i].st = "inflight"
    /\ pst' = [pst EXCEPT ![j].finished = Append(@, i), ![j].rw[i].st = "raised"]
    /\ UNCHANGED <<svcvars, srt, san>>

\* A gather that returns the values last argument first.
GatherValue_reversed(rw) == [i \in DOMAIN rw |-> rw[Len(rw) + 1 - i].out]

\* Every coroutine returned: gather returns their values in argument order.
GatherValue(rw) == [i \in DOMAIN rw |-> rw[i].out]

\* A gather that waits for every coroutine and passes over the ones that raised.
GatherReturn_tolerant(j) ==
    /\ Run(j).pc = "optimize_queries"
    /\ Run(j).phase = "await"
    /\ \A i \in DOMAIN Run(j).rw : Run(j).rw[i].st \in {"done", "raised"}
    /\ pst' = [pst EXCEPT
            ![j].state = ApplyUpdate(@, [out_queries |-> GatherValue(Run(j).rw)]),
            ![j].completed = Append(@, Run(j).pc),
            ![j].phase = "enter",
            ![j].pc = PipeAfter(Run(j).agent, Run(j).pc)]
    /\ UNCHANGED <<svcvars, srt, san>>

GatherReturn(j) ==
    /\ Run(j).pc = "optimize_queries"
    /\ Run(j).phase = "await"
    /\ \A i \in DOMAIN Run(j).rw : Run(j).rw[i].st = "done"
    /\ pst' = [pst EXCEPT
            ![j].state = ApplyUpdate(@, [out_queries |-> GatherValue(Run(j).rw)]),
            ![j].returns = Append(@, [node |-> Run(j).pc,
                                      value |-> GatherValue(Run(j).rw)]),
            ![j].completed = Append(@, Run(j).pc),
            ![j].phase = "enter",
            ![j].pc = PipeAfter(Run(j).agent, Run(j).pc)]
    /\ UNCHANGED <<svcvars, srt, san>>

\* A coroutine raised: gather hands the exception to the node, which lets it
\* through; the other coroutines are not cancelled.
GatherRaise(j) ==
    /\ Run(j).pc = "optimize_queries"
    /\ Run(j).phase = "await"
    /\ \E i \in DOMAIN Run(j).rw : Run(j).rw[i].st = "raised"
    /\ pst' = [pst EXCEPT ![j].pc = "raised", ![j].raised_in = Run(j).pc]
    /\ UNCHANGED <<svcvars, srt, san>>

\* ------------------------------------------------------------------ assemble

\* The dict form_final_output returns.
FinalOutput(state) ==
    [out_ddl_statements |-> PyGet(state, "out_ddl_statements", <<>>),
     out_migrations |-> PyGet(state, "out_migrations", <<>>),
     out_queries |-> state["out_queries"]]

\* The last node: its dict is merged into the Pipeline State like any other.
form_final_output(j) ==
    /\ Run(j).pc = "form_final_output"
    /\ pst' = [pst EXCEPT
            ![j].state = ApplyUpdate(@, FinalOutput(@)),
            ![j].started = Append(@, Run(j).pc),
            ![j].calls = Append(@, [node |-> Run(j).pc,
                                    reads |-> Reads(Run(j).agent, Run(j).pc),
                                    before |-> Run(j).completed,
                                    args |-> [unset |-> TRUE]]),
            ![j].returns = Append(@, [node |-> Run(j).pc,
                                      value |-> FinalOutput(Run(j).state)]),
            ![j].completed = Append(@, Run(j).pc),
            ![j].pc = PipeAfter(Run(j).agent, Run(j).pc)]
    /\ UNCHANGED <<svcvars, srt, san>>

\* graph.ainvoke returns the values of the state channels: the Pipeline State.
\* It has no key named after a node, so the .get falls back to its default.
RunResult(final_state) == PyGet(final_state, "form_final_output", final_state)

run_return(j) ==
    /\ Run(j).pc = "END"
    /\ pst' = [pst EXCEPT ![j].result = RunResult(Run(j).state),
                          ![j].pc = "returned"]
    /\ UNCHANGED <<svcvars, srt, san>>

\* ------------------------------------------------------------------ pipeline specifications

NextPipeline ==
    \/ \E j \in DOMAIN pst : run_begin(j)
    \/ \E j \in DOMAIN pst : sort_queries_by_total_time(j)
    \/ \E j \in DOMAIN pst : StageCall(j)
    \/ \E j \in DOMAIN pst : StageReturn(j)
    \/ \E j \in DOMAIN pst : StageRaise(j)
    \/ \E j \in DOMAIN pst : optimize_queries_begin(j)
    \/ \E j \in DOMAIN pst : \E i \in DOMAIN Run(j).rw : RewriteStart(j, i)
    \/ \E j \in DOMAIN pst : \E i \in DOMAIN Run(j).rw : RewriteReturn(j, i)
    \/ \E j \in DOMAIN pst : \E i \in DOMAIN Run(j).rw : RewriteRaise(j, i)
    \/ \E j \in DOMAIN pst : GatherReturn(j)
    \/ \E j \in DOMAIN pst : GatherRaise(j)
    \/ \E j \in DOMAIN pst : form_final_output(j)
    \/ \E j \in DOMAIN pst : run_return(j)

SpecPipeline == InitPipeline /\ [][NextPipeline]_vars

SpecAgents == InitAgents /\ [][NextPipeline]_vars

\* ------------------------------------------------------------------ claims

StatusReads == {"get_task_state", "route_get_task_status"}
ResultReads == {"get_task_result", "route_get_task_result"}
Creations == {"create_task", "route_create_task"}

\* C1 (as claimed): once the status of a task is DONE or FAILED, no registry
\* operation changes it. change_task_state writes whatever state it is given.
C1_TerminalStatusIsFinal ==
    [][\A t \in issued : _tasks[t] \in {DONE, FAILED} => _tasks'[t] = _tasks[t]]_vars

\* C2 (as claimed): an identifier has a stored result if and only if its status
\* is DONE. set_task_result and change_task_state write the two maps independently.
C2_ResultIffDone ==
    \A t \in Ids : (_tasks_results[t] # Missing) <=> (_tasks[t] = DONE)

C4_StatusRightAfterSubmit ==
    (last.op \in StatusReads /\ last.fresh) => last.ret = RUNNING

C4_Witness ==
    /\ last.op = "get_task_state"
    /\ last.fresh
    /\ last.ret = RUNNING
    /\ \E u \in issued \ {last.id} : _tasks[u] = DONE

\* C5 (as claimed): once the job of a task has finished, the next status query
\* returns DONE if run() returned and FAILED if it raised, and a result fetch that
\* follows a finished run() does not report NotFound.
C5_StatusFollowsJob ==
    [][(last' # last /\ last'.id \in UuidPool) =>
          /\ (last'.op = "route_get_task_status" /\ job[last'.id] = "returned")
                => last'.ret = DONE
          /\ (last'.op = "route_get_task_status" /\ job[last'.id] = "raised")
                => last'.ret = FAILED
          /\ (last'.op = "route_get_task_result" /\ job[last'.id] = "returned"
                /\ last.op = "route_get_task_status" /\ last.id = last'.id)
                => last'.ret # HTTP404]_vars

\* C6 (as claimed): every submitted job is eventually reported DONE or FAILED by
\* a status query.
C6_EveryJobReachesTerminal ==
    \A t \in UuidPool :
        (t \in issued) ~>
            (last.op = "route_get_task_status" /\ last.id = t /\ last.ret \in {DONE, FAILED})

\* C7: a read that follows an earlier read of the same kind on the same task, with
\* no write on that task in between, returns what the earlier read returned.
C7_RepeatedReadsAgree ==
    (last.op \in StatusReads \cup ResultReads /\ last.prev # "-") => last.ret = last.prev

C7_Witness ==
    /\ last.op = "get_task_result"
    /\ last.prev \in Results
    /\ last.ret = last.prev
    /\ obs.id = last.id
    /\ obs.state = DONE

C9_ResultOnlyWhenDone ==
    /\ (last.op = "get_task_result" /\ _tasks[last.id] # DONE) => last.ret = None
    /\ (last.op = "route_get_task_result" /\ _tasks[last.id] # DONE) => last.ret = HTTP404
    /\ (last.op \in ResultReads /\ last.ret \in Results) => _tasks[last.id] = DONE

IsPrefix(s, t) == Len(s) <= Len(t) /\ \A i \in 1..Len(s) : s[i] = t[i]

\* C11: in every run of GoogleOptimizerAgent the nodes start in the order of
\* the graph (sort, analyze, develop-ddl, generate-migrations, optimize-queries,
\* assemble), each at most once and none passed over; a node starts only when
\* all nodes before it have completed; a run that returned ran all six.
C11_StagesInFixedOrder ==
    \A j \in DOMAIN pst :
        /\ IsPrefix(Run(j).started, Nodes)
        /\ IsPrefix(Run(j).completed, Run(j).started)
        /\ Len(Run(j).started) <= Len(Run(j).completed) + 1
        /\ Run(j).pc = "returned" => Run(j).completed = Nodes

\* A run over a non-empty workload returned.
C11_Witness ==
    \E j \in DOMAIN pst :
        /\ Run(j).pc = "returned"
        /\ Run(j).data.queries # <<>>
        /\ Len(Run(j).started) = Len(Nodes)

InSeq(x, s) == \E i \in DOMAIN s : s[i] = x

DerivedFields ==
    {"optimization_plan", "out_ddl_statements", "out_migrations", "out_queries"}

\* The node that assigns a derived field.
Producer(f) == CHOOSE n \in SingleCallNodes \cup {"optimize_queries"} : Writes(n) = f

EmptyValue(f) == IF f = "optimization_plan" THEN "" ELSE <<>>

\* C12: in every Pipeline State of a GoogleOptimizerAgent run, a derived field
\* (optimization_plan, out_ddl_statements, out_migrations, out_queries) holds
\* its empty value as long as the node producing it has not completed, and
\* every node that started had, when it started, only derived fields to read
\* whose producing node had completed.
C12_DerivedFieldsFilledInOrder ==
    \A j \in DOMAIN pst :
        Run(j).pc # "called" =>
            /\ \A f \in DerivedFields :
                  ~InSeq(Producer(f), Run(j).completed) =>
                      Run(j).state[f] = EmptyValue(f)
            /\ \A c \in DOMAIN Run(j).calls :
                  \A f \in Run(j).calls[c].reads \cap DerivedFields :
                      InSeq(Producer(f), Run(j).calls[c].before)

\* generate_migrations is waiting for its answer: it has read the plan and a
\* non-empty new schema, and the two fields of the later nodes are still empty.
C12_Witness ==
    \E j \in DOMAIN pst :
        /\ Run(j).pc = "generate_migrations"
        /\ Run(j).phase = "await"
        /\ Run(j).state["optimization_plan"] # ""
        /\ Run(j).state["out_ddl_statements"] # <<>>
        /\ Run(j).state["out_migrations"] = <<>>

\* C13: the sort stage returns the items of the workload in non-increasing
\* order of impact = runquantity * executiontime (a missing metric counting as
\* 0), and two items of equal impact stay in the order they had in the input.
\* Items carry their input position as identifier.
C13_SortIsStableDescending ==
    srt.done =>
        /\ Len(srt.out) = Len(srt.queries)
        /\ \A a \in DOMAIN srt.out : srt.out[a] = srt.queries[srt.out[a].queryid]
        /\ \A a, b \in DOMAIN srt.out :
              a < b =>
                  /\ Impact(srt.out[a]) >= Impact(srt.out[b])
                  /\ Impact(srt.out[a]) = Impact(srt.out[b]) =>
                        srt.out[a].queryid < srt.out[b].queryid

\* A workload of three items was sorted whose first item has the least impact
\* and whose two other items have the same impact.
C13_Witness ==
    /\ srt.done
    /\ Len(srt.queries) = 3
    /\ Impact(srt.queries[1]) < Impact(srt.queries[2])
    /\ Impact(srt.queries[2]) = Impact(srt.queries[3])
    /\ srt.out = <<srt.queries[2], srt.queries[3], srt.queries[1]>>

\* The number of entries of a workload or of a result that carry identifier id.
CountId(id, s) == Cardinality({i \in DOMAIN s : s[i].queryid = id})

C15_FailedRewriteKeepsOriginal ==
    \A j \in DOMAIN pst :
        /\ Run(j).raised_in # "optimize_queries"
        /\ Run(j).pc = "returned" =>
              \A i \in DOMAIN Run(j).rw :
                  Run(j).result["out_queries"][i] =
                      IF Run(j).rw[i].st = "raised"
                      THEN Entry(Run(j).state["queries"][i],
                                 Run(j).state["queries"][i]["query"])
                      ELSE Run(j).rw[i].out

\* C16 (as claimed): once analyze_schema, develop_ddl or generate_migrations
\* has raised in the job of a task, no further node of that job starts, no
\* result is stored for the task, and a status query for it returns FAILED.
\* Nothing sets the status of a task after create_task stored RUNNING.
C16_StageFailureFailsTask ==
    [][\A t \in UuidPool :
          (job[t] = "raised" /\ raised_in[t] \in SingleCallNodes) =>
              /\ job'[t] = "raised"
              /\ _tasks_results'[t] = Missing
              /\ (last' # last /\ last'.op = "route_get_task_status"
                    /\ last'.id = t) => last'.ret = FAILED]_vars

\* C17 (as claimed): the record run() returns has exactly the three keys
\* out_ddl_statements, out_migrations and out_queries, with the values the
\* stages produced, and neither an input field nor the optimization plan.
\* run() returns final_state.get("form_final_output", final_state), and the
\* final state has no such key: the whole Pipeline State is returned.
C17_ResultIsProjection ==
    \A j \in DOMAIN pst :
        Run(j).pc = "returned" =>
            /\ DOMAIN Run(j).result =
                  {"out_ddl_statements", "out_migrations", "out_queries"}
            /\ Run(j).result = FinalOutput(Run(j).state)

\* C18 (as claimed): for a generated text wrapped in a fenced code block the
\* statement splitter returns exactly the non-blank lines of the body, each
\* trimmed, in their order, none of them empty and none holding a fence.
\* An opening fence whose language tag is followed by a space is not matched by
\* the first substitution; its backticks are removed later and the tag stays
\* behind as a statement.
C18_FencedBodyLinesReturned ==
    san.done =>
        /\ san.out = StrippedNonBlank(san.body)
        /\ \A k \in DOMAIN san.out :
              san.out[k] # <<>> /\ \A i \in DOMAIN san.out[k] : san.out[k][i] # FENCE

\* C19: in a run of GoogleOptimizerAgent, once the rewrite of one item has
\* raised, optimize_queries never completes: the run is still inside the node
\* or has raised, out_queries of the Pipeline State is empty, also when other
\* rewrites returned, and run() returns no result.
C19_RewriteFailureFailsStage ==
    \A j \in DOMAIN pst :
        (\E i \in DOMAIN Run(j).rw : Run(j).rw[i].st = "raised") =>
            /\ Run(j).pc \in {"optimize_queries", "raised"}
            /\ ~InSeq("optimize_queries", Run(j).completed)
            /\ Run(j).state["out_queries"] = <<>>
            /\ Run(j).result = NoResult

\* The run raised out of optimize_queries after one rewrite returned and the
\* other raised.
C19_Witness ==
    \E j \in DOMAIN pst :
        /\ Run(j).pc = "raised"
        /\ Run(j).raised_in = "optimize_queries"
        /\ \E i \in DOMAIN Run(j).rw : Run(j).rw[i].st = "done"
        /\ \E i \in DOMAIN Run(j).rw : Run(j).rw[i].st = "raised"

\* The values node n returned in run j, in the order of its completions.
Returned(j, n) ==
    SelectSeq(Run(j).returns, LAMBDA r : r.node = n)

\* C20: in a run of GoogleOptimizerAgent every rewrite that has started did so
\* after generate_migrations completed, and was called with the SQL of its own
\* workload item and with the whole sequence of statements generate_migrations
\* returned.
C20_RewriteGetsOwnSqlAndMigrations ==
    \A j \in DOMAIN pst :
        \A i \in DOMAIN Run(j).rw :
            Run(j).rw[i].st # "pending" =>
                /\ InSeq("generate_migrations", Run(j).completed)
                /\ Len(Returned(j, "generate_migrations")) = 1
                /\ Run(j).rw[i].args.query = Run(j).state["queries"][i]["query"]
                /\ Run(j).rw[i].args.migration_commands =
                      Returned(j, "generate_migrations")[1].value

\* Two rewrites of different SQL are in flight after generate_migrations
\* returned two statements.
C20_Witness ==
    \E j \in DOMAIN pst :
        /\ Len(Run(j).rw) = 2
        /\ \A i \in DOMAIN Run(j).rw : Run(j).rw[i].st = "inflight"
        /\ Run(j).rw[1].args.query # Run(j).rw[2].args.query
        /\ Len(Run(j).state["out_migrations"]) = 2

\* ------------------------------------------------------------------ large fan-out
\* One GoogleOptimizerAgent run over a workload long enough to show how many
\* rewrites optimize_queries keeps in flight.

\* The longest workload of the large fan-out.
MaxFanOut == 11

\* A workload of n items of equal impact, identified by their position.
BatchWorkload(n) ==
    [i \in 1..n |-> [queryid |-> ToString(i), query |-> "SELECT a",
                     runquantity |-> 1, executiontime |-> 1]]

BatchInput(n) ==
    [metadata |-> [url |-> "jdbc"], ddl_statements |-> <<"CREATE TABLE t">>,
     queries |-> BatchWorkload(n)]

InitDispatch ==
    /\ InitService
    /\ \E n \in 0..MaxFanOut : pst = [j \in {1} |-> NewRun(GOOGLE, BatchInput(n))]
    /\ srt = Idle
    /\ san = Idle

\* The run up to the first pass of the event loop over the coroutines gather
\* scheduled: every earlier generation call answers, and each coroutine runs
\* to the await of its own generation call before any answer can arrive.
NextDispatch ==
    \/ \E j \in DOMAIN pst : run_begin(j)
    \/ \E j \in DOMAIN pst : sort_queries_by_total_time(j)
    \/ \E j \in DOMAIN pst : StageCall(j)
    \/ \E j \in DOMAIN pst : StageReturn(j)
    \/ \E j \in DOMAIN pst : optimize_queries_begin(j)
    \/ \E j \in DOMAIN pst : \E i \in DOMAIN Run(j).rw : RewriteStart(j, i)

SpecDispatch == InitDispatch /\ [][NextDispatch]_vars

\* The rewrites of run j whose generation call is awaited.
InFlightRewrites(j) == {i \in DOMAIN Run(j).rw : Run(j).rw[i].st = "inflight"}

\* C21: during the optimize-queries stage never more than 10 rewrite generation
\* calls of a job are in flight at the same time, whatever the workload's size.
C21_AtMostTenRewritesInFlight ==
    \A j \in DOMAIN pst : Cardinality(InFlightRewrites(j)) <= 10

\* ------------------------------------------------------------------ one run, any outcome
\* One GoogleOptimizerAgent run over a workload of up to MaxBatch items in
\* which every generation call may answer or raise.

MaxBatch == 3

InitBatch ==
    /\ InitService
    /\ \E n \in 0..MaxBatch : pst = [j \in {1} |-> NewRun(GOOGLE, BatchInput(n))]
    /\ srt = Idle
    /\ san = Idle

SpecBatch == InitBatch /\ [][NextPipeline]_vars

\* The generation calls of run j that were issued and have not answered or
\* raised: the one a single-call node awaits and the ones of the rewrites.
InFlightCalls(j) ==
    Cardinality(InFlightRewrites(j))
    + (IF Run(j).pc \in SingleCallNodes /\ Run(j).phase = "await" THEN 1 ELSE 0)

\* C22: a job has more than one generation call in flight only while its
\* optimize-queries stage is running; while it is in sort, analyze, develop-ddl,
\* generate-migrations or assemble at most one call is in flight.
C22_ManyCallsOnlyInFanOut ==
    \A j \in DOMAIN pst :
        /\ InFlightCalls(j) > 1 => Run(j).pc = "optimize_queries"
        /\ Run(j).pc \in {"sort_queries_by_total_time", "analyze_schema",
                          "develop_ddl", "generate_migrations",
                          "form_final_output"}
              => InFlightCalls(j) <= 1

\* ------------------------------------------------------------------ claims on generation calls

\* The ainvoke calls run j has issued: one per started single-call node and
\* one per rewrite coroutine that reached optimize_query.
StageCallsIssued(j) ==
    {c \in DOMAIN Run(j).calls : Run(j).calls[c].node \in SingleCallNodes}

RewriteCallsIssued(j) ==
    {i \in DOMAIN Run(j).rw : Run(j).rw[i].st # "pending"}

GenerationCalls(j) ==
    Cardinality(StageCallsIssued(j)) + Cardinality(RewriteCallsIssued(j))

\* C23: every stage-agent invocation issues one generation call and none is
\* issued again after it failed: a run over n items issues at most 3 + n
\* calls, at most one per single-call node, and exactly 3 + n when it returns.
C23_OneCallPerInvocation ==
    \A j \in DOMAIN pst :
        /\ GenerationCalls(j) <= 3 + Len(Run(j).data.queries)
        /\ \A c, d \in StageCallsIssued(j) :
              Run(j).calls[c].node = Run(j).calls[d].node => c = d
        /\ Run(j).pc = "returned"
              => GenerationCalls(j) = 3 + Len(Run(j).data.queries)

\* A run over two items returned after five generation calls.
C23_Witness ==
    \E j \in DOMAIN pst :
        /\ Run(j).pc = "returned"
        /\ Len(Run(j).data.queries) = 2
        /\ GenerationCalls(j) = 5

\* ------------------------------------------------------------------ sort and analyze alone
\* The sort node followed by analyze_schema up to the instruction AnalystAgent
\* builds, over workloads longer than the analyst's limit.

\* The longest workload handed to sort and analyze on their own.
MaxAnalyzeLen == 11

SchemaInputs == {<<"CREATE TABLE t">>, <<"CREATE TABLE t", "CREATE TABLE u">>}

\* The workload whose item i has run-count m[i] and is identified by its
\* position in the input.
AnalyzeWorkload(m) ==
    [i \in DOMAIN m |-> [queryid |-> ToString(i), query |-> "SELECT a",
                         runquantity |-> m[i], executiontime |-> 1]]

InitAnalyze ==
    /\ InitService
    /\ pst = NoRun
    /\ \E k \in 0..MaxAnalyzeLen : \E m \in [1..k -> {1, 2}] :
       \E ddl \in SchemaInputs :
          srt = [done |-> FALSE, ddl_statements |-> ddl,
                 queries |-> AnalyzeWorkload(m)]
    /\ san = Idle

\* The sort node replaces the workload, analyze_schema hands the schema and
\* the workload to AnalystAgent.analyze, which builds the format() arguments.
analyze_apply ==
    /\ ~srt.done
    /\ LET state == [ddl_statements |-> srt.ddl_statements,
                     queries |-> sorted_reverse(srt.queries)]
       IN srt' = [done |-> TRUE, ddl_statements |-> srt.ddl_statements,
                  queries |-> srt.queries, sorted |-> state.queries,
                  variables |-> Variables(GOOGLE, "analyze_schema",
                                    StageArgs("analyze_schema", state))]
    /\ UNCHANGED <<svcvars, pst, san>>

SpecAnalyze == InitAnalyze /\ [][analyze_apply]_vars

\* C24: the analyst's instruction gets the whole schema and the first
\* min(10, n) items of the sorted workload, in sorted order; an item ranked
\* after the tenth is not in it.
C24_AnalystGetsTopTen ==
    srt.done =>
        LET blocks == srt.variables.input_queries.items
            n == Len(srt.sorted)
        IN /\ srt.variables.input_ddl_statements.items = srt.ddl_statements
           /\ Len(blocks) = (IF n < 10 THEN n ELSE 10)
           /\ \A i \in DOMAIN blocks :
                 /\ blocks[i].number = i
                 /\ blocks[i].queryid = srt.sorted[i].queryid
                 /\ blocks[i].query = srt.sorted[i].query
                 /\ blocks[i].runquantity = srt.sorted[i].runquantity
                 /\ blocks[i].executiontime = srt.sorted[i].executiontime
           /\ \A r \in 11..n : \A i \in DOMAIN blocks :
                 blocks[i].queryid # srt.sorted[r].queryid

\* A workload of eleven items that the sort reordered: ten blocks are built
\* and the item ranked eleventh is left out.
C24_Witness ==
    /\ srt.done
    /\ Len(srt.queries) = 11
    /\ srt.sorted # srt.queries
    /\ Len(srt.variables.input_queries.items) = 10
    /\ srt.variables.input_ddl_statements.items = srt.ddl_statements

\* An item that lacks its run-count or its execution-time.
LacksMetric(q) == ~({"runquantity", "executiontime"} \subseteq DOMAIN q)

\* An item that has both metrics and a positive product of them.
PositiveImpact(q) ==
    /\ ~LacksMetric(q)
    /\ q.runquantity * q.executiontime > 0

\* C25: the sort stage takes a missing run-count or execution-time as zero:
\* it returns every item of a workload that has such items, and each of them
\* stands after every item of positive impact.
C25_MissingMetricSortsAsZero ==
    srt.done =>
        /\ Len(srt.out) = Len(srt.queries)
        /\ \A i \in DOMAIN srt.queries :
              \E a \in DOMAIN srt.out : srt.out[a] = srt.queries[i]
        /\ \A a, b \in DOMAIN srt.out :
              LacksMetric(srt.out[b]) /\ PositiveImpact(srt.out[a]) => a < b

\* The first item has an execution-time of 2 and no run-count, the second has
\* both metrics at 1: the sort put the second before the first.
C25_Witness ==
    /\ srt.done
    /\ Len(srt.queries) = 2
    /\ "runquantity" \notin DOMAIN srt.queries[1]
    /\ PyGet(srt.queries[1], "executiontime", 0) = 2
    /\ PositiveImpact(srt.queries[2])
    /\ srt.out = <<srt.queries[2], srt.queries[1]>>

\* ------------------------------------------------------------------ one submitted job
\* The service after one POST /tasks/new: the registry holds the task, the job
\* is the pipeline run of the same number, and a client polls the status.

InitJob ==
    /\ _tasks = [t \in Ids |-> IF t = 1 THEN RUNNING ELSE Missing]
    /\ _tasks_results = [t \in Ids |-> Missing]
    /\ issued = {1}
    /\ job = [t \in UuidPool |-> IF t = 1 THEN "scheduled" ELSE "none"]
    /\ last = Call("route_create_task", 1, "id", FALSE, "-", FALSE)
    /\ fresh = {1}
    /\ obs = NoObs
    /\ raised_in = [t \in UuidPool |-> "none"]
    /\ \E data \in Inputs : pst = [j \in {1} |-> NewRun(GOOGLE, data)]
    /\ srt = Idle
    /\ san = Idle

\* The steps of the run and the status reads; nothing in agent.run or in the
\* route writes the registry after the task was created.
NextJob ==
    \/ NextPipeline
    \/ route_get_task_status

SpecJob == InitJob /\ [][NextJob]_vars

\* A status read of task 1 that finds its run returned with an empty
\* out_ddl_statements or out_migrations.
PollAfterEmptyReturn ==
    /\ pst' = pst
    /\ last'.op = "route_get_task_status"
    /\ last'.id = 1
    /\ Run(1).pc = "returned"
    /\ \/ Run(1).result["out_ddl_statements"] = <<>>
       \/ Run(1).result["out_migrations"] = <<>>

\* C26: when develop_ddl or generate_migrations gets a text without a usable
\* statement it returns an empty sequence without raising, the run goes on to
\* the next node, and the job reaches DONE with the empty sequence: the status
\* read after the run returned says DONE.
C26_EmptyStatementsStillDone ==
    [][/\ \A n \in {"develop_ddl", "generate_migrations"} :
            (Run(1).pc = n /\ Len(Run(1)'.completed) > Len(Run(1).completed)
                /\ Run(1)'.state[Writes(n)] = <<>>)
                => Run(1)'.pc = PipeAfter(GOOGLE, n)
       /\ PollAfterEmptyReturn => last'.ret = DONE]_vars

\* The characters that open or close an SQL comment.
CommentMarks == {"--", "/*", "*/"}

\* C27: the statements the splitter of the DDL and migration agents returns
\* contain no SQL comment: single-line and block comments of the generated
\* text are removed before it is split.
C27_NoCommentInStatements ==
    san.done =>
        \A s \in DOMAIN san.out : \A c \in DOMAIN san.out[s] :
            san.out[s][c] \notin CommentMarks

\* ------------------------------------------------------------------ the earlier orchestrator
\* One run of optimizer_agent.GoogleOptimizerAgent, whose develop_ddl node
\* calls DDLAgent. The run ends in develop_ddl, so the later nodes have no step.

InitOld ==
    /\ InitService
    /\ \E data \in Inputs : pst = [j \in {1} |-> NewRun(GOOGLE_OLD, data)]
    /\ srt = Idle
    /\ san = Idle

NextOld ==
    \/ \E j \in DOMAIN pst : run_begin(j)
    \/ \E j \in DOMAIN pst : sort_queries_by_total_time(j)
    \/ \E j \in DOMAIN pst : StageCall(j)
    \/ \E j \in DOMAIN pst : StageReturn(j)
    \/ \E j \in DOMAIN pst : StageRaise(j)

SpecOld == InitOld /\ [][NextOld]_vars

\* C28: what each of the four stage agents passes to format() names every
\* field of its template, so filling the template never fails for a missing
\* variable: a node about to call its agent gets its instruction, develop_ddl
\* with DEVELOP_DDL_FROM_PLAN included.
C28_TemplateVariablesSupplied ==
    \A j \in DOMAIN pst :
        /\ (Run(j).pc \in SingleCallNodes /\ Run(j).phase = "enter")
              => StagePrompt(j).ok
        /\ \A i \in DOMAIN Run(j).rw :
              Run(j).rw[i].st = "pending" =>
                  Format(Template(Run(j).agent, "optimize_queries"),
                         Variables(Run(j).agent, "optimize_queries",
                                   RewriteArgs(Run(j).state, i))).ok

\* ------------------------------------------------------------------ two concurrent jobs
\* Two agent.run coroutines on the one GoogleOptimizerAgent instance, their
\* steps interleaved by the event loop. Job j has its own schema and workload.

\* The longest workload of each of the two jobs.
MaxEach == 1

JobInput(j, n) ==
    [metadata |-> [url |-> "jdbc"],
     ddl_statements |-> <<<<"CREATE TABLE", j>>>>,
     queries |-> [i \in 1..n |-> [queryid |-> ToString(i),
                                  query |-> <<"SELECT", j, i>>,
                                  runquantity |-> i, executiontime |-> 1]]]

InitTwoJobs ==
    /\ InitService
    /\ \E n1, n2 \in 0..MaxEach :
          pst = [j \in {1, 2} |-> NewRun(GOOGLE, JobInput(j, IF j = 1 THEN n1 ELSE n2))]
    /\ srt = Idle
    /\ san = Idle

SpecTwoJobs == InitTwoJobs /\ [][NextPipeline]_vars

\* The value key f has after the answers in returns were stored in order: the
\* one of the last answer that writes f, or the one of start when none does.
StoredValue(start, returns, f) ==
    LET writers == {r \in DOMAIN returns :
                        \/ returns[r].node # "form_final_output"
                              /\ Writes(returns[r].node) = f
                        \/ returns[r].node = "form_final_output"
                              /\ f \in DOMAIN returns[r].value}
    IN IF writers = {} THEN start[f]
       ELSE LET r == CHOOSE w \in writers : \A x \in writers : x <= w
            IN IF returns[r].node = "form_final_output"
               THEN returns[r].value[f] ELSE returns[r].value

\* The Pipeline State a run alone has after the nodes in completed, given its
\* input and the answers its own calls received.
AloneState(data, completed, returns) ==
    [f \in DOMAIN InitialState(GOOGLE, data) |->
        StoredValue(
            IF InSeq("sort_queries_by_total_time", completed)
            THEN ApplyUpdate(InitialState(GOOGLE, data),
                             [queries |-> sorted_reverse(data.queries)])
            ELSE InitialState(GOOGLE, data),
            returns, f)]

\* The state of job j is the one it has alone, its calls carry its own
\* schema and queries, and its result is the one it returns alone.
OwnState(j) ==
    /\ pst[j].pc # "called" =>
          pst[j].state = AloneState(pst[j].data, pst[j].completed, pst[j].returns)
    /\ \A c \in DOMAIN pst[j].calls :
          pst[j].calls[c].node = "analyze_schema" =>
              pst[j].calls[c].args.ddl_statements = pst[j].data.ddl_statements
    /\ \A i \in DOMAIN pst[j].rw :
          pst[j].rw[i].st = "inflight" =>
              pst[j].rw[i].args.query
                  = sorted_reverse(pst[j].data.queries)[i].query
    /\ pst[j].pc = "returned" =>
          pst[j].result
              = RunResult(AloneState(pst[j].data, pst[j].completed, pst[j].returns))

\* C29: two jobs running concurrently on the shared orchestrator each have
\* their own Pipeline State: in every interleaving a step of one job leaves the
\* other job's record as it was, and each job's state and result are those it
\* has running alone with the same answers.
C29_JobsAreIsolated ==
    /\ [](\A j \in DOMAIN pst : OwnState(j))
    /\ [][\A j, k \in DOMAIN pst :
            j # k => (pst'[j] = pst[j] \/ pst'[k] = pst[k])]_vars

\* Job 2 ran to its end while job 1 was awaiting its migrations: job 1 still
\* holds its own new schema, which differs from the one job 2 returned.
C29_Witness ==
    /\ pst[1].pc = "generate_migrations"
    /\ pst[1].phase = "await"
    /\ pst[2].pc = "returned"
    /\ Len(pst[1].data.queries) = 1
    /\ Len(pst[2].data.queries) = 1
    /\ pst[1].state["out_ddl_statements"] # pst[2].result["out_ddl_statements"]
    /\ pst[2].result["out_queries"] = <<Entry(pst[2].data.queries[1],
                                              Rewritten(<<"SELECT", 2, 1>>))>>

\* C30: once a job has failed because a rewrite of the fan-out raised, none of
\* its generation calls is in flight any more: the other rewrites of the
\* fan-out were stopped with the job.
C30_FailedFanOutStopsSiblings ==
    \A j \in DOMAIN pst :
        (Run(j).pc = "raised" /\ Run(j).raised_in = "optimize_queries")
            => InFlightCalls(j) = 0

\* ------------------------------------------------------------------ the registry by its methods
\* TaskManager called through its five methods only, with recorded and
\* unrecorded identifiers in any order.

NextRegistry ==
    \/ create_task
    \/ get_task_state
    \/ change_task_state
    \/ set_task_result
    \/ get_task_result

SpecRegistry == Init /\ [][NextRegistry]_vars

\* ------------------------------------------------------------------ frame claims

\* The number of positions of s that hold x.
Occurrences(x, s) == Cardinality({i \in DOMAIN s : s[i] = x})

\* t holds the items of s, each as often as s does.
IsPermutation(s, t) ==
    /\ Len(s) = Len(t)
    /\ \A i \in DOMAIN s : Occurrences(s[i], s) = Occurrences(s[i], t)

\* C31: the sort stage returns a permutation of the workload it was given: no
\* item is dropped, duplicated or altered, and no other field of the Pipeline
\* State changes.
C31_SortPermutesAndKeepsFrame ==
    [][\A j \in DOMAIN pst :
          Run(j).pc = "sort_queries_by_total_time" /\ pst'[j] # pst[j] =>
              /\ IsPermutation(pst[j].state["queries"], pst'[j].state["queries"])
              /\ DOMAIN pst'[j].state = DOMAIN pst[j].state
              /\ \A f \in DOMAIN pst[j].state \ {"queries"} :
                    pst'[j].state[f] = pst[j].state[f]]_vars

\* The sort has run on a workload of two different items and exchanged them.
C31_Witness ==
    \E j \in DOMAIN pst :
        /\ InSeq("sort_queries_by_total_time", Run(j).completed)
        /\ Len(Run(j).data.queries) = 2
        /\ Run(j).state["queries"]
              = <<Run(j).data.queries[2], Run(j).data.queries[1]>>
        /\ Run(j).data.queries[1] # Run(j).data.queries[2]

\* The stage the claim names as the only writer of a derived field.
ClaimedWriter(f) ==
    CASE f = "optimization_plan" -> "analyze_schema"
      [] f = "out_ddl_statements" -> "develop_ddl"
      [] f = "out_migrations" -> "generate_migrations"
      [] f = "out_queries" -> "optimize_queries"

\* C32: no stage changes the input schema; a derived field changes only in a
\* step of its own stage, from its empty initial value, and keeps the value
\* afterwards; generate_migrations is handed the input schema as the old DDL.
C32_StagesWriteOwnFieldOnly ==
    /\ [](\A j \in DOMAIN pst : \A c \in DOMAIN Run(j).calls :
            Run(j).calls[c].node = "generate_migrations" =>
                Run(j).calls[c].args.old_ddl_statements
                    = Run(j).data.ddl_statements)
    /\ [][\A j \in DOMAIN pst :
            pst[j].pc # "called" =>
                /\ pst'[j].state["ddl_statements"] = pst[j].data.ddl_statements
                /\ pst'[j].state["metadata"] = pst[j].data.metadata
                /\ \A f \in DerivedFields :
                      pst'[j].state[f] # pst[j].state[f] =>
                          /\ pst[j].pc = ClaimedWriter(f)
                          /\ pst[j].state[f] = EmptyValue(f)]_vars

\* A run returned with its four derived fields filled, after generate_migrations
\* was handed the input schema next to a different new schema.
C32_Witness ==
    \E j \in DOMAIN pst :
        /\ Run(j).pc = "returned"
        /\ \A f \in DerivedFields : Run(j).state[f] # EmptyValue(f)
        /\ Run(j).state["ddl_statements"] = Run(j).data.ddl_statements
        /\ \E c \in DOMAIN Run(j).calls :
              /\ Run(j).calls[c].node = "generate_migrations"
              /\ Run(j).calls[c].args.old_ddl_statements = Run(j).data.ddl_statements
              /\ Run(j).calls[c].args.new_ddl_statements # Run(j).data.ddl_statements

\* C33: out_queries of optimize_queries is as long as the sorted workload and
\* its i-th entry carries the identifier of the i-th sorted item, in whatever
\* order the rewrite calls completed and also when items share an identifier.
C33_EntriesFollowSortedOrder ==
    \A j \in DOMAIN pst :
        InSeq("optimize_queries", Run(j).completed) =>
            /\ Len(Run(j).state["out_queries"]) = Len(Run(j).state["queries"])
            /\ \A i \in DOMAIN Run(j).state["queries"] :
                  Run(j).state["out_queries"][i].queryid
                      = Run(j).state["queries"][i].queryid

\* The rewrite of the second sorted item completed before the one of the
\* first; the two items have different identifiers and the entries stand in
\* sorted order.
C33_Witness ==
    \E j \in DOMAIN pst :
        /\ InSeq("optimize_queries", Run(j).completed)
        /\ Run(j).finished = <<2, 1>>
        /\ Run(j).state["queries"][1].queryid # Run(j).state["queries"][2].queryid
        /\ Run(j).state["out_queries"][1].queryid = Run(j).state["queries"][1].queryid
        /\ Run(j).state["out_queries"][2].queryid = Run(j).state["queries"][2].queryid

\* C34: an operation of the Task Registry on one identifier leaves the status
\* and the stored result of every other identifier as they were.
C34_OtherTasksUntouched ==
    [][\A t \in Ids :
          t # last'.id =>
              /\ _tasks'[t] = _tasks[t]
              /\ _tasks_results'[t] = _tasks_results[t]]_vars

\* The state of task 1 was just changed to DONE while task 2 is recorded as
\* RUNNING and has a stored result.
C34_Witness ==
    /\ last.op = "change_task_state"
    /\ last.id = 1
    /\ _tasks[1] = DONE
    /\ _tasks[2] = RUNNING
    /\ _tasks_results[2] # Missing

\* C35: get_task_state and get_task_result are pure reads: for a known or an
\* unknown identifier they change neither the status map nor the result map.
C35_ReadsChangeNothing ==
    [][last'.op \in {"get_task_state", "get_task_result"} =>
          /\ _tasks' = _tasks
          /\ _tasks_results' = _tasks_results]_vars

\* get_task_state was just called for an identifier that is not recorded, and
\* it still is not; another task is recorded.
C35_Witness ==
    /\ last.op = "get_task_state"
    /\ last.id \in ForeignIds
    /\ last.ret = FAILED
    /\ _tasks[last.id] = Missing
    /\ _tasks_results[last.id] = Missing
    /\ \E t \in Ids : _tasks[t] # Missing

\* C36: a run over an empty workload issues no rewrite call; its
\* optimize_queries starts, returns without waiting for anything and stores an
\* empty out_queries; the run reaches it only after analyze_schema, develop_ddl
\* and generate_migrations completed, and it returns after all six nodes.
C36_EmptyWorkloadCompletes ==
    \A j \in DOMAIN pst :
        Run(j).data.queries = <<>> =>
            /\ RewriteCallsIssued(j) = {}
            /\ Run(j).pc = "optimize_queries" =>
                  /\ IsPrefix(<<"sort_queries_by_total_time", "analyze_schema",
                                "develop_ddl", "generate_migrations">>,
                              Run(j).completed)
                  /\ Run(j).phase = "enter" => ENABLED optimize_queries_begin(j)
                  /\ Run(j).phase = "await" =>
                        ENABLED GatherReturn(j) /\ ~ENABLED GatherRaise(j)
            /\ InSeq("optimize_queries", Run(j).completed) =>
                  Run(j).state["out_queries"] = <<>>
            /\ Run(j).pc = "returned" =>
                  /\ Run(j).completed = Nodes
                  /\ Run(j).result["out_queries"] = <<>>

\* A run over an empty workload returned with a new schema and migrations,
\* after three generation calls.
C36_Witness ==
    \E j \in DOMAIN pst :
        /\ Run(j).data.queries = <<>>
        /\ Run(j).pc = "returned"
        /\ Run(j).result["out_queries"] = <<>>
        /\ Run(j).result["out_ddl_statements"] # <<>>
        /\ Run(j).result["out_migrations"] # <<>>
        /\ GenerationCalls(j) = 3

====
